---- MODULE Spec2Model ----
(***************************************************************************)
(* SpaceS: the application shell (src/src/application.rs) and the frame    *)
(* driver (src/src/graphics.rs) as a state machine.                        *)
(*                                                                         *)
(* The program is single threaded.  Its position is (phase, pcidx): during *)
(* startup pcidx indexes enable_event_loop, while a window event is        *)
(* handled it indexes window_event(event).  Every statement of the code    *)
(* that calls a collaborator (winit, wgpu, imgui, image) is one step; the  *)
(* collaborator's answer is drawn from a small set by the step.            *)
(***************************************************************************)
EXTENDS Integers, Sequences, FiniteSets, TLC

(* ------------------------------ bounds --------------------------------- *)
\* number of window events the event loop delivers in one run
MaxEvents == 2
\* longest capability list the surface offers
MaxCaps == 2

(* --------------------------- value domains ----------------------------- *)
\* Option::None for a string-valued and for a record-valued variable
None == "None"
NoRecord == [none |-> TRUE]

\* physical pixel sizes the window can have (1200x600 logical, scale 1 or 2)
WindowSizes == { [width |-> 1200, height |-> 600], [width |-> 2400, height |-> 1200] }

\* texture formats a surface can offer, and the ones wgpu flags is_srgb()
Formats == { "Bgra8Unorm", "Bgra8UnormSrgb", "Rgba8UnormSrgb" }
is_srgb(f) == f \in { "Bgra8UnormSrgb", "Rgba8UnormSrgb" }
PresentModes == { "Fifo", "Mailbox" }
AlphaModes == { "Opaque", "PreMultiplied" }

\* decoded pixel dimensions of design/Hintergrund.png
ImageDims == { [width |-> 64, height |-> 64], [width |-> 3, height |-> 2] }

SeqsUpTo(S, n) == UNION { [1..k -> S] : k \in 0..n }

\* keys a KeyboardInput event can carry (PhysicalKey::Code(..) or ::Unidentified)
Keys == { "Escape", "KeyA", "Unidentified" }
KeyStates == { "Pressed", "Released" }

NoSize == [width |-> 0, height |-> 0]

RedrawRequested == [kind |-> "RedrawRequested", key |-> None, state |-> None, size |-> NoSize]
KeyboardInput(k, s) == [kind |-> "KeyboardInput", key |-> k, state |-> s, size |-> NoSize]
Resized(sz) == [kind |-> "Resized", key |-> None, state |-> None, size |-> sz]
CursorMoved == [kind |-> "CursorMoved", key |-> None, state |-> None, size |-> NoSize]
NoEvent == [kind |-> None, key |-> None, state |-> None, size |-> NoSize]

WindowEvents ==
    {RedrawRequested, CursorMoved}
        \cup { KeyboardInput(k, s) : k \in Keys, s \in KeyStates }
        \cup { Resized(sz) : sz \in WindowSizes }

NoCaps == [formats |-> <<>>, present_modes |-> <<>>, alpha_modes |-> <<>>]
NoTextures == [n \in {} |-> 0]

VARIABLES
    phase,              \* "startup" | "idle" | "handling" | "exited" | "failed" | "panicked"
    pcidx,              \* index of the next step of the running function
    startup_calls,      \* the startup steps attempted so far, in order
    failed_step,        \* the step whose failure ended startup or the last frame
    window_size,        \* window.inner_size(), NoSize before the window exists
    surface_caps,       \* surface.get_capabilities(..) while enable_graphics_interface runs
    surface_format,     \* the local surface_format of enable_graphics_interface
    surface_configuration, \* the local surface_configuration being built
    graphics_interface, \* the SimulationGraphcisInterface, None until constructed
    contexts_constructed, \* how many times enable_graphics_interface returned Ok
    image_load,         \* what image::open returned for the icon, None until opened
    tex_load,           \* the uploaded icon texture, None until written
    renderer_textures,  \* imgui_renderer.textures: id -> texture config
    texture_map,        \* name -> TextureId
    application,        \* TRUE once ApplicationSimulationInterface::new has run
    io,                 \* imgui io: the events handle_event has applied, in order
    ui_frame_open,      \* imgui: a frame was begun and not yet ended by render()
    redraw_pending,     \* window.request_redraw() was called and not yet served
    exit_requested,     \* event_loop.exit() was called
    delivered,          \* every event the loop handed to window_event, in order
    event,              \* the event window_event is handling
    calls,              \* collaborator calls made by the current window_event call
    result,             \* outcome of graphics::render in the current call
    acquired,           \* surface images acquired and neither presented nor dropped
    submissions,        \* per queue.submit in the current call: command buffers handed over
    ui_observed,        \* the io state the latest UI frame was built from
    frame_start         \* state the frame depends on, as it was when render was entered

gpu_vars == << surface_caps, surface_format, surface_configuration,
               graphics_interface, contexts_constructed >>
texture_vars == << image_load, tex_load, renderer_textures, texture_map >>
startup_vars == << startup_calls, window_size, gpu_vars, texture_vars, application >>
imgui_vars == << io, ui_frame_open >>
loop_vars == << redraw_pending, exit_requested, delivered >>
frame_vars == << event, calls, result, acquired, submissions, ui_observed, frame_start >>
vars == << phase, pcidx, failed_step, startup_vars, imgui_vars, loop_vars, frame_vars >>

NoFrame == [cfg |-> NoRecord, textures |-> NoTextures, ui_frame_open |-> FALSE]

Init ==
    /\ phase = "startup"
    /\ pcidx = 1
    /\ startup_calls = <<>>
    /\ failed_step = None
    /\ window_size = NoSize
    /\ surface_caps = NoCaps
    /\ surface_format = None
    /\ surface_configuration = NoRecord
    /\ graphics_interface = NoRecord
    /\ contexts_constructed = 0
    /\ image_load = NoRecord
    /\ tex_load = NoRecord
    /\ renderer_textures = NoTextures
    /\ texture_map = NoTextures
    /\ application = FALSE
    /\ io = <<>>
    /\ ui_frame_open = FALSE
    /\ redraw_pending = FALSE
    /\ exit_requested = FALSE
    /\ delivered = <<>>
    /\ event = NoEvent
    /\ calls = <<>>
    /\ result = None
    /\ acquired = 0
    /\ submissions = <<>>
    /\ ui_observed = <<>>
    /\ frame_start = NoFrame

(* ------------------------------ startup -------------------------------- *)
\* application.rs:193-260, the fallible or state-changing statements in order
enable_graphics_interface ==
    << "create_surface", "request_adapter", "request_device", "get_capabilities",
       "find_srgb", "SurfaceConfiguration", "configure" >>

\* enable_event_loop that never enters the icon into the registry
enable_event_loop_without_registration ==
    << "EventLoop::build", "create_window" >>
        \o enable_graphics_interface
        \o << "imgui_setup", "write_image_from_path_msaa_off", "textures.insert",
              "ApplicationSimulationInterface::new", "run_app" >>

\* application.rs:47-142
enable_event_loop ==
    << "EventLoop::build", "create_window" >>
        \o enable_graphics_interface
        \o << "imgui_setup", "write_image_from_path_msaa_off", "textures.insert",
              "texture_map.insert", "ApplicationSimulationInterface::new", "run_app" >>

AtStartup(step) ==
    /\ phase = "startup"
    /\ pcidx <= Len(enable_event_loop)
    /\ enable_event_loop[pcidx] = step

\* the statement completed: go on with the next one
StartupNext(step) ==
    /\ startup_calls' = Append(startup_calls, step)
    /\ pcidx' = pcidx + 1
    /\ UNCHANGED << phase, failed_step >>

\* a failed statement is attempted again
StartupRetry(step, how) ==
    /\ startup_calls' = Append(startup_calls, step)
    /\ UNCHANGED << phase, failed_step, pcidx >>

\* the statement failed: `?` returns Err to main ("failed"), unwrap/expect panics
StartupStop(step, how) ==
    /\ startup_calls' = Append(startup_calls, step)
    /\ phase' = how
    /\ failed_step' = step
    /\ UNCHANGED pcidx

\* application.rs:48  EventLoop::with_user_event().build()?
EventLoopBuild ==
    /\ AtStartup("EventLoop::build")
    /\ \E ok \in BOOLEAN :
          IF ok THEN StartupNext("EventLoop::build")
                ELSE StartupStop("EventLoop::build", "failed")
    /\ UNCHANGED << window_size, gpu_vars, texture_vars, application,
                    imgui_vars, loop_vars, frame_vars >>

\* application.rs:49-60  create_window(..).expect(..)
CreateWindow ==
    /\ AtStartup("create_window")
    /\ \/ /\ \E sz \in WindowSizes : window_size' = sz
          /\ StartupNext("create_window")
       \/ /\ StartupStop("create_window", "panicked")
          /\ UNCHANGED window_size
    /\ UNCHANGED << gpu_vars, texture_vars, application, imgui_vars, loop_vars, frame_vars >>

\* application.rs:202  create_surface(window.clone()).unwrap()
CreateSurface ==
    /\ AtStartup("create_surface")
    /\ \E ok \in BOOLEAN :
          IF ok THEN StartupNext("create_surface")
                ELSE StartupStop("create_surface", "panicked")
    /\ UNCHANGED << window_size, gpu_vars, texture_vars, application,
                    imgui_vars, loop_vars, frame_vars >>

\* application.rs:203-209  request_adapter(..).block_on()?
RequestAdapter ==
    /\ AtStartup("request_adapter")
    /\ \E ok \in BOOLEAN :
          IF ok THEN StartupNext("request_adapter")
                ELSE StartupStop("request_adapter", "failed")
    /\ UNCHANGED << window_size, gpu_vars, texture_vars, application,
                    imgui_vars, loop_vars, frame_vars >>

\* application.rs:221-233  request_device(..).block_on()?
RequestDevice ==
    /\ AtStartup("request_device")
    /\ \E ok \in BOOLEAN :
          IF ok THEN StartupNext("request_device")
                ELSE StartupStop("request_device", "failed")
    /\ UNCHANGED << window_size, gpu_vars, texture_vars, application,
                    imgui_vars, loop_vars, frame_vars >>

\* application.rs:234  surface.get_capabilities(&graphics_adapter)
GetCapabilities ==
    /\ AtStartup("get_capabilities")
    /\ \E fs \in SeqsUpTo(Formats, MaxCaps), ps \in SeqsUpTo(PresentModes, MaxCaps),
          as \in SeqsUpTo(AlphaModes, MaxCaps) :
          surface_caps' = [formats |-> fs, present_modes |-> ps, alpha_modes |-> as]
    /\ StartupNext("get_capabilities")
    /\ UNCHANGED << window_size, surface_format, surface_configuration, graphics_interface,
                    contexts_constructed, texture_vars, application,
                    imgui_vars, loop_vars, frame_vars >>

\* a search that keeps the last sRGB format instead of the first
RECURSIVE find_last_srgb(_)
find_last_srgb(formats) ==
    IF formats = <<>> THEN None
    ELSE IF find_last_srgb(Tail(formats)) # None THEN find_last_srgb(Tail(formats))
    ELSE IF is_srgb(Head(formats)) THEN Head(formats)
    ELSE None

\* Iterator::find: the first element satisfying the predicate, None if there is none
RECURSIVE find_srgb(_)
find_srgb(formats) ==
    IF formats = <<>> THEN None
    ELSE IF is_srgb(Head(formats)) THEN Head(formats)
    ELSE find_srgb(Tail(formats))

\* slice::first
first(s) == IF s = <<>> THEN None ELSE Head(s)

\* application.rs:235-240  formats.iter().find(|f| f.is_srgb()).copied().unwrap()
SelectSurfaceFormat ==
    /\ AtStartup("find_srgb")
    /\ IF find_srgb(surface_caps.formats) = None
          THEN /\ StartupStop("find_srgb", "panicked")
               /\ UNCHANGED surface_format
          ELSE /\ surface_format' = find_srgb(surface_caps.formats)
               /\ StartupNext("find_srgb")
    /\ UNCHANGED << window_size, surface_caps, surface_configuration, graphics_interface,
                    contexts_constructed, texture_vars, application,
                    imgui_vars, loop_vars, frame_vars >>

\* application.rs:241-250  the SurfaceConfiguration literal
SurfaceConfigurationOf(format, size, caps) ==
    [ usage |-> "RENDER_ATTACHMENT",
      format |-> format,
      width |-> size.width,
      height |-> size.height,
      present_mode |-> first(caps.present_modes),
      desired_maximum_frame_latency |-> 1,
      alpha_mode |-> first(caps.alpha_modes) ]

\* application.rs:241-250  present_modes.first().unwrap(), alpha_modes.first().unwrap()
BuildSurfaceConfiguration ==
    /\ AtStartup("SurfaceConfiguration")
    /\ IF first(surface_caps.present_modes) = None \/ first(surface_caps.alpha_modes) = None
          THEN /\ StartupStop("SurfaceConfiguration", "panicked")
               /\ UNCHANGED surface_configuration
          ELSE /\ surface_configuration' =
                      SurfaceConfigurationOf(surface_format, window_size, surface_caps)
               /\ StartupNext("SurfaceConfiguration")
    /\ UNCHANGED << window_size, surface_caps, surface_format, graphics_interface,
                    contexts_constructed, texture_vars, application,
                    imgui_vars, loop_vars, frame_vars >>

\* application.rs:251-259  surface.configure(..); Ok(SimulationGraphcisInterface::new(..))
\* the locals of enable_graphics_interface go out of scope on return
ConfigureSurface ==
    /\ AtStartup("configure")
    /\ graphics_interface' = [surface_configuration |-> surface_configuration]
    /\ contexts_constructed' = contexts_constructed + 1
    /\ surface_caps' = NoCaps
    /\ surface_format' = None
    /\ surface_configuration' = NoRecord
    /\ StartupNext("configure")
    /\ UNCHANGED << window_size, texture_vars, application,
                    imgui_vars, loop_vars, frame_vars >>

\* imgui::Textures::insert: the id the registry hands out for the next texture
next_texture_id(textures) == Cardinality(DOMAIN textures)

\* imgui::Textures::insert: the texture is stored under the next id
insert(textures, texture) ==
    [ id \in DOMAIN textures \cup { next_texture_id(textures) } |->
        IF id \in DOMAIN textures THEN textures[id] ELSE texture ]

\* application.rs:86-91  imgui_wgpu::Renderer::new uploads the font atlas of the context
\* and enters it in its texture registry
FontAtlas == [ label |-> "imgui-wgpu font atlas" ]

\* application.rs:104-126  imgui_wgpu::Texture::new(.., TextureConfig{..}) from the upload
IconTexture(tex) ==
    [ size |-> tex.size,
      label |-> "ila",
      format |-> tex.format,
      usage |-> tex.usage,
      mip_level_count |-> tex.mip_level_count,
      sample_count |-> tex.sample_count,
      dimension |-> tex.dimension ]

\* application.rs:63-91  imgui context, platform, font and renderer: nothing here can fail
ImguiSetup ==
    /\ AtStartup("imgui_setup")
    /\ io' = <<>>
    /\ ui_frame_open' = FALSE
    /\ renderer_textures' = insert(renderer_textures, FontAtlas)
    /\ StartupNext("imgui_setup")
    /\ UNCHANGED << window_size, gpu_vars, image_load, tex_load, texture_map, application,
                    loop_vars, frame_vars >>

\* image::open(path) failed
DecodeError == [error |-> "DecodeError"]

\* the uploader with the row stride counted in pixels instead of bytes
write_image_with_pixel_stride(surface_conf, image) ==
    IF image = DecodeError THEN DecodeError
    ELSE LET size == [ width |-> image.width, height |-> image.height,
                       depth_or_array_layers |-> 1 ]
         IN [ size |-> size,
              mip_level_count |-> 1,
              sample_count |-> 1,
              dimension |-> "D2",
              format |-> surface_conf.format,
              usage |-> { "TEXTURE_BINDING", "COPY_DST" },
              writes |-> << [ mip_level |-> 0,
                              origin |-> [x |-> 0, y |-> 0, z |-> 0],
                              offset |-> 0,
                              bytes_per_row |-> image.width,
                              rows_per_image |-> image.height,
                              size |-> size ] >> ]

\* graphics.rs:165-203; image is what image::open returned: the decoded image's
\* dimensions, or DecodeError
write_image_from_path_msaa_off(surface_conf, image) ==
    IF image = DecodeError THEN DecodeError
    ELSE LET size == [ width |-> image.width, height |-> image.height,
                       depth_or_array_layers |-> 1 ]
         IN [ size |-> size,
              mip_level_count |-> 1,
              sample_count |-> 1,
              dimension |-> "D2",
              format |-> surface_conf.format,
              usage |-> { "TEXTURE_BINDING", "COPY_DST" },
              writes |-> << [ mip_level |-> 0,
                              origin |-> [x |-> 0, y |-> 0, z |-> 0],
                              offset |-> 0,
                              bytes_per_row |-> 4 * image.width,
                              rows_per_image |-> image.height,
                              size |-> size ] >> ]

\* application.rs:93-101  write_image_from_path_msaa_off(..).expect(..): what startup
\* does with the uploader's result
expect_texture(r) == IF r = DecodeError THEN "panicked" ELSE "continue"

\* application.rs:93-101
WriteImage ==
    /\ AtStartup("write_image_from_path_msaa_off")
    /\ \E opened \in ImageDims \cup {DecodeError} :
          LET r == write_image_from_path_msaa_off(graphics_interface.surface_configuration,
                                                  opened)
          IN /\ image_load' = opened
             /\ IF expect_texture(r) = "panicked"
                   THEN /\ StartupStop("write_image_from_path_msaa_off", "panicked")
                        /\ UNCHANGED tex_load
                   ELSE /\ tex_load' = r
                        /\ StartupNext("write_image_from_path_msaa_off")
    /\ UNCHANGED << window_size, gpu_vars, renderer_textures, texture_map, application,
                    imgui_vars, loop_vars, frame_vars >>

\* application.rs:104-126  imgui_renderer.textures.insert(Texture::new(.., TextureConfig{..}))
InsertTexture ==
    /\ AtStartup("textures.insert")
    /\ renderer_textures' = insert(renderer_textures, IconTexture(tex_load))
    /\ StartupNext("textures.insert")
    /\ UNCHANGED << window_size, gpu_vars, image_load, tex_load, texture_map, application,
                    imgui_vars, loop_vars, frame_vars >>

\* application.rs:103,128  texture_map.insert("tex.icon", icon_texture_id)
RegisterTexture ==
    /\ AtStartup("texture_map.insert")
    /\ texture_map' = [ n \in DOMAIN texture_map \cup {"tex.icon"} |->
                          IF n = "tex.icon" THEN next_texture_id(renderer_textures) - 1
                          ELSE texture_map[n] ]
    /\ StartupNext("texture_map.insert")
    /\ UNCHANGED << window_size, gpu_vars, image_load, tex_load, renderer_textures, application,
                    imgui_vars, loop_vars, frame_vars >>

\* application.rs:130-138  ApplicationSimulationInterface::new(window, Some(graphics_interface), ..)
NewApplication ==
    /\ AtStartup("ApplicationSimulationInterface::new")
    /\ application' = TRUE
    /\ StartupNext("ApplicationSimulationInterface::new")
    /\ UNCHANGED << window_size, gpu_vars, texture_vars, imgui_vars, loop_vars, frame_vars >>

\* application.rs:140  event_loop.run_app(&mut application)?: the loop starts, or run_app
\* returns Err at once and `?` returns it to main
RunApp ==
    /\ AtStartup("run_app")
    /\ \E ok \in BOOLEAN :
          IF ok THEN /\ startup_calls' = Append(startup_calls, "run_app")
                     /\ phase' = "idle"
                     /\ pcidx' = 1
                     /\ UNCHANGED failed_step
                ELSE StartupStop("run_app", "failed")
    /\ UNCHANGED << window_size, gpu_vars, texture_vars, application,
                    imgui_vars, loop_vars, frame_vars >>

Startup ==
    \/ EventLoopBuild \/ CreateWindow \/ CreateSurface \/ RequestAdapter \/ RequestDevice
    \/ GetCapabilities \/ SelectSurfaceFormat \/ BuildSurfaceConfiguration
    \/ ConfigureSurface \/ ImguiSetup \/ WriteImage \/ InsertTexture \/ RegisterTexture
    \/ NewApplication \/ RunApp

(* ---------------------------- frame driver ----------------------------- *)
\* render with the image presented before the recording is submitted
render_present_before_submit ==
    << "request_redraw", "prepare_frame", "frame", "image_button",
       "get_current_texture", "create_view", "create_command_encoder",
       "begin_render_pass", "prepare_render", "imgui_context.render",
       "imgui_renderer.render", "end_render_pass", "present", "submit", "Ok" >>

\* render with the queue submission left out
render_without_submit ==
    << "request_redraw", "prepare_frame", "frame", "image_button",
       "get_current_texture", "create_view", "create_command_encoder",
       "begin_render_pass", "prepare_render", "imgui_context.render",
       "imgui_renderer.render", "end_render_pass", "present", "Ok" >>

\* graphics.rs:86-162  the statements of graphics::render in program order
render ==
    << "request_redraw", "prepare_frame", "frame", "image_button",
       "get_current_texture", "create_view", "create_command_encoder",
       "begin_render_pass", "prepare_render", "imgui_context.render",
       "imgui_renderer.render", "end_render_pass", "submit", "present", "Ok" >>

\* application.rs:162-183  the match on the event
dispatch(ev) ==
    IF ev.kind = "RedrawRequested" THEN render
    ELSE IF ev.kind = "KeyboardInput" /\ ev.key # "Unidentified" THEN << "on_key_input" >>
    ELSE << >>

\* window_event forwarding the event only after it has dispatched it
window_event_forward_last(ev) == dispatch(ev) \o << "handle_event" >>

\* application.rs:147-184  forward to the overlay's I/O adapter, then dispatch
window_event(ev) == << "handle_event" >> \o dispatch(ev)

InRender(step) == \E i \in 1..Len(render) : render[i] = step

\* the first statement of window_event after the call of graphics::render
RECURSIVE AfterRender(_, _)
AfterRender(prog, i) ==
    IF i > Len(prog) THEN i
    ELSE IF InRender(prog[i]) THEN AfterRender(prog, i + 1)
    ELSE i

AtHandler(step) ==
    /\ phase = "handling"
    /\ pcidx <= Len(window_event(event))
    /\ window_event(event)[pcidx] = step

\* continue at statement j of window_event, or return to the event loop after the last
Goto(j) ==
    IF j > Len(window_event(event))
        THEN /\ phase' = "idle"
             /\ pcidx' = 1
        ELSE /\ phase' = "handling"
             /\ pcidx' = j

\* the statement completed
HandlerNext(made) ==
    /\ calls' = calls \o made
    /\ Goto(pcidx + 1)
    /\ UNCHANGED failed_step

\* `?` on an Err: graphics::render returns Err, which window_event discards (application.rs:174)
RenderErr(step) ==
    /\ calls' = Append(calls, step)
    /\ result' = "Err"
    /\ failed_step' = step
    /\ Goto(AfterRender(window_event(event), pcidx))

\* `?` on an Err inside the block of the render pass (graphics.rs:122-154): leaving the
\* block drops render_pass, which ends the pass, before render returns Err
RenderErrInPass(step) ==
    /\ calls' = calls \o << step, "end_render_pass" >>
    /\ result' = "Err"
    /\ failed_step' = step
    /\ Goto(AfterRender(window_event(event), pcidx))

\* unwrap() on an Err or None, or an abort inside a collaborator: the process dies
HandlerPanic(step) ==
    /\ calls' = Append(calls, step)
    /\ result' = "panicked"
    /\ failed_step' = step
    /\ phase' = "panicked"
    /\ UNCHANGED pcidx

\* only events other than keyboard input reach the overlay
handle_event_without_keys(io_state, ev) ==
    IF ev.kind = "KeyboardInput" THEN io_state ELSE Append(io_state, ev)

\* application.rs:157-161  imgui_platform.handle_event(io, window, event): the event is
\* applied to the overlay's io state
handle_event(io_state, ev) == Append(io_state, ev)

\* application.rs:153-161
HandleEvent ==
    /\ AtHandler("handle_event")
    /\ io' = handle_event(io, event)
    /\ HandlerNext(<< "handle_event" >>)
    /\ UNCHANGED << startup_vars, ui_frame_open, loop_vars,
                    event, result, acquired, submissions, ui_observed, frame_start >>

\* what a frame depends on: the GraphicsContext, the registry, the overlay's frame state
FrameState ==
    [ cfg |-> graphics_interface, textures |-> texture_map, ui_frame_open |-> ui_frame_open ]

\* graphics.rs:95  window_handle.request_redraw()
RequestRedraw ==
    /\ AtHandler("request_redraw")
    /\ redraw_pending' = TRUE
    /\ frame_start' = FrameState
    /\ result' = "running"
    /\ HandlerNext(<< "request_redraw" >>)
    /\ UNCHANGED << startup_vars, imgui_vars, exit_requested, delivered,
                    event, acquired, submissions, ui_observed >>

\* graphics.rs:98-100  prepare_frame(..).unwrap()
PrepareFrame ==
    /\ AtHandler("prepare_frame")
    /\ \E ok \in BOOLEAN :
          IF ok THEN HandlerNext(<< "prepare_frame" >>) /\ UNCHANGED result
                ELSE HandlerPanic("prepare_frame")
    /\ UNCHANGED << startup_vars, imgui_vars, loop_vars,
                    event, acquired, submissions, ui_observed, frame_start >>

\* imgui::Context::frame() while the previous frame was never ended breaks Dear ImGui's
\* precondition: a build with its assertions aborts, one without them goes on
frame_outcomes(open) == IF open THEN { "continue", "panicked" } ELSE { "continue" }

\* graphics.rs:101  imgui_context.frame(): the UI frame begins from the io state
Frame ==
    /\ AtHandler("frame")
    /\ \E how \in frame_outcomes(ui_frame_open) :
          IF how = "continue"
             THEN /\ ui_frame_open' = TRUE
                  /\ ui_observed' = io
                  /\ HandlerNext(<< "frame" >>)
                  /\ UNCHANGED result
             ELSE /\ HandlerPanic("frame")
                  /\ UNCHANGED << ui_frame_open, ui_observed >>
    /\ UNCHANGED << startup_vars, io, loop_vars,
                    event, acquired, submissions, frame_start >>

\* a lookup that binds the button to a default handle when the name is missing
get_or_default(map, name) == "continue"

\* graphics.rs:105  texture_map.get(name).unwrap(): a missing name panics
get_unwrap(map, name) == IF name \in DOMAIN map THEN "continue" ELSE "panicked"

\* graphics.rs:102-108  main_menu_bar with one image_button bound to "tex.icon"
ImageButton ==
    /\ AtHandler("image_button")
    /\ IF get_unwrap(texture_map, "tex.icon") = "continue"
          THEN HandlerNext(<< "image_button" >>) /\ UNCHANGED result
          ELSE HandlerPanic("image_button")
    /\ UNCHANGED << startup_vars, imgui_vars, loop_vars,
                    event, acquired, submissions, ui_observed, frame_start >>

\* graphics.rs:110-112  get_current_texture()?
GetCurrentTexture ==
    /\ AtHandler("get_current_texture")
    /\ \E ok \in BOOLEAN :
          IF ok THEN /\ acquired' = acquired + 1
                     /\ HandlerNext(<< "get_current_texture" >>)
                     /\ UNCHANGED result
                ELSE /\ RenderErr("get_current_texture")
                     /\ UNCHANGED acquired
    /\ UNCHANGED << startup_vars, imgui_vars, loop_vars,
                    event, submissions, ui_observed, frame_start >>

\* a statement of render that only records into objects local to the frame
Recording(step) ==
    /\ AtHandler(step)
    /\ HandlerNext(<< step >>)
    /\ UNCHANGED << startup_vars, imgui_vars, loop_vars,
                    event, result, acquired, submissions, ui_observed, frame_start >>

\* graphics.rs:113-115
CreateView == Recording("create_view")
\* graphics.rs:116-121
CreateCommandEncoder == Recording("create_command_encoder")
\* graphics.rs:123-143
BeginRenderPass == Recording("begin_render_pass")
\* graphics.rs:145
PrepareRender == Recording("prepare_render")
\* graphics.rs:154  the render pass is dropped at the end of its block
EndRenderPass == Recording("end_render_pass")

\* graphics.rs:146  imgui_context.render(): the UI frame ends, the draw data is final
ImguiContextRender ==
    /\ AtHandler("imgui_context.render")
    /\ ui_frame_open' = FALSE
    /\ HandlerNext(<< "imgui_context.render" >>)
    /\ UNCHANGED << startup_vars, io, loop_vars,
                    event, result, acquired, submissions, ui_observed, frame_start >>

\* the error path keeps the acquired image alive
drop_output_leaked(n) == n

\* graphics.rs:153  the `?` leaves render: `output` is dropped, which hands the image back
drop_output(n) == n - 1

\* graphics.rs:148-153  imgui_renderer.render(..)?
ImguiRendererRender ==
    /\ AtHandler("imgui_renderer.render")
    /\ \E ok \in BOOLEAN :
          IF ok THEN /\ HandlerNext(<< "imgui_renderer.render" >>)
                     /\ UNCHANGED << result, acquired >>
                ELSE /\ RenderErrInPass("imgui_renderer.render")
                     /\ acquired' = drop_output(acquired)
    /\ UNCHANGED << startup_vars, imgui_vars, loop_vars,
                    event, submissions, ui_observed, frame_start >>

\* graphics.rs:158  std::iter::once(command_ecoder.finish()): the command buffers handed over
command_buffers == 1

\* graphics.rs:156-158  gpu_queue.submit(std::iter::once(command_ecoder.finish()))
Submit ==
    /\ AtHandler("submit")
    /\ submissions' = Append(submissions, command_buffers)
    /\ HandlerNext(<< "finish", "submit" >>)
    /\ UNCHANGED << startup_vars, imgui_vars, loop_vars,
                    event, result, acquired, ui_observed, frame_start >>

\* graphics.rs:159  output.present() consumes the acquired image
Present ==
    /\ AtHandler("present")
    /\ acquired' = acquired - 1
    /\ HandlerNext(<< "present" >>)
    /\ UNCHANGED << startup_vars, imgui_vars, loop_vars,
                    event, result, submissions, ui_observed, frame_start >>

\* graphics.rs:161  Ok(())
RenderOk ==
    /\ AtHandler("Ok")
    /\ result' = "Ok"
    /\ calls' = calls
    /\ Goto(pcidx + 1)
    /\ UNCHANGED << failed_step, startup_vars, imgui_vars, loop_vars,
                    event, acquired, submissions, ui_observed, frame_start >>

(* --------------------------- application shell ------------------------- *)
\* application.rs:262-273  the match on the key code
requests_exit(ev) == ev.key = "Escape"

\* application.rs:177-181, 262-273
OnKeyInput ==
    /\ AtHandler("on_key_input")
    /\ IF requests_exit(event)
          THEN /\ exit_requested' = TRUE
               /\ HandlerNext(<< "on_key_input", "exit" >>)
          ELSE /\ HandlerNext(<< "on_key_input" >>)
               /\ UNCHANGED exit_requested
    /\ UNCHANGED << startup_vars, imgui_vars, redraw_pending, delivered,
                    event, result, acquired, submissions, ui_observed, frame_start >>

\* the event loop calls window_event with the next event; a Resized event tells of a
\* new physical size of the window, a RedrawRequested serves a pending request
DeliverEvent ==
    /\ phase = "idle"
    /\ Len(delivered) < MaxEvents
    /\ \E ev \in WindowEvents :
          /\ event' = ev
          /\ delivered' = Append(delivered, ev)
          /\ window_size' = IF ev.kind = "Resized" THEN ev.size ELSE window_size
          /\ redraw_pending' = IF ev.kind = "RedrawRequested" THEN FALSE ELSE redraw_pending
    /\ phase' = "handling"
    /\ pcidx' = 1
    /\ failed_step' = None
    /\ calls' = << >>
    /\ result' = None
    /\ submissions' = << >>
    /\ frame_start' = NoFrame
    /\ UNCHANGED << startup_calls, gpu_vars, texture_vars, application,
                    imgui_vars, exit_requested, acquired, ui_observed >>

\* application.rs:140  run_app returns Ok once exit was requested and the current
\* iteration is over; it returns Err when the loop itself fails, and `?` hands that
\* to main
LoopExit ==
    /\ phase = "idle"
    /\ \E ok \in BOOLEAN :
          IF ok THEN /\ exit_requested
                     /\ phase' = "exited"
                     /\ UNCHANGED failed_step
                ELSE /\ phase' = "failed"
                     /\ failed_step' = "run_app"
    /\ UNCHANGED << pcidx, startup_vars, imgui_vars, loop_vars, frame_vars >>

Handler ==
    \/ HandleEvent \/ RequestRedraw \/ PrepareFrame \/ Frame \/ ImageButton
    \/ GetCurrentTexture \/ CreateView \/ CreateCommandEncoder \/ BeginRenderPass
    \/ PrepareRender \/ ImguiContextRender \/ ImguiRendererRender \/ EndRenderPass
    \/ Submit \/ Present \/ RenderOk \/ OnKeyInput

Next == Startup \/ Handler \/ DeliverEvent \/ LoopExit

Spec == Init /\ [][Next]_vars

(* ------------- graphics::render on an arbitrary texture registry ------- *)
\* graphics.rs:93  render is public and takes the registry as a parameter: the
\* registries a caller can pass, with and without the name the UI asks for
Registries ==
    { NoTextures, [n \in { "tex.icon" } |-> 1], [n \in { "missing" } |-> 1] }

\* the event loop is running on a constructed application whose registry is any of
\* Registries
InitRender ==
    /\ phase = "idle"
    /\ pcidx = 1
    /\ startup_calls = enable_event_loop
    /\ failed_step = None
    /\ window_size \in WindowSizes
    /\ surface_caps = NoCaps
    /\ surface_format = None
    /\ surface_configuration = NoRecord
    /\ graphics_interface =
          [ surface_configuration |->
              SurfaceConfigurationOf("Bgra8UnormSrgb", window_size,
                  [ formats |-> << "Bgra8UnormSrgb" >>, present_modes |-> << "Fifo" >>,
                    alpha_modes |-> << "Opaque" >> ]) ]
    /\ contexts_constructed = 1
    /\ image_load \in ImageDims
    /\ tex_load = write_image_from_path_msaa_off(graphics_interface.surface_configuration,
                                                 image_load)
    /\ renderer_textures = insert(insert(NoTextures, FontAtlas), IconTexture(tex_load))
    /\ texture_map \in Registries
    /\ application = TRUE
    /\ io = <<>>
    /\ ui_frame_open = FALSE
    /\ redraw_pending = FALSE
    /\ exit_requested = FALSE
    /\ delivered = <<>>
    /\ event = NoEvent
    /\ calls = <<>>
    /\ result = None
    /\ acquired = 0
    /\ submissions = <<>>
    /\ ui_observed = <<>>
    /\ frame_start = NoFrame

NextRender == Handler \/ DeliverEvent \/ LoopExit

SpecRender == InitRender /\ [][NextRender]_vars

(* ------------------------------ properties ----------------------------- *)
Count(seq, x) == Cardinality({ i \in DOMAIN seq : seq[i] = x })
Has(seq, x) == \E i \in DOMAIN seq : seq[i] = x
IsPrefix(p, q) == Len(p) <= Len(q) /\ SubSeq(q, 1, Len(p)) = p

\* window_event has returned to the event loop for the event in `event`
HandlerReturned == phase \in { "idle", "exited" } /\ event # NoEvent

\* the four externally visible steps of a frame
Pipeline == << "get_current_texture", "begin_render_pass", "submit", "present" >>
IsPipelineStep(c) == Has(Pipeline, c)

\* graphics::render was entered for the current event and has not returned
FrameInProgress == phase = "handling" /\ result = "running"

\* C1: within one invocation of graphics::render the steps acquisition, render-pass
\* recording, submission, presentation happen in this order, each at most once and
\* none before its predecessor; and while a frame is in progress no other event (so
\* no step of another frame) is taken up.
C1_FrameStepsInOrder ==
    /\ [](IsPrefix(SelectSeq(calls, IsPipelineStep), Pipeline))
    /\ [][FrameInProgress => delivered' = delivered]_vars

\* a frame that went through all four steps
C1_Witness == SelectSeq(calls, IsPipelineStep) = Pipeline

\* C2: a frame that completes without error made exactly one queue submission, of
\* exactly one finished command recording, and presented its image exactly once; a
\* frame that failed presented nothing.
C2_OneSubmitOnePresent ==
    /\ result = "Ok" =>
          /\ submissions = << 1 >>
          /\ Count(calls, "submit") = 1
          /\ Count(calls, "finish") = 1
          /\ Count(calls, "present") = 1
    /\ result \in { "Err", "panicked" } => Count(calls, "present") = 0

\* a frame that returned Ok to window_event
C2_Witness == HandlerReturned /\ result = "Ok"

\* C3: at most one acquired image is outstanding; none is outstanding when
\* get_current_texture is attempted nor while the event loop waits for an event.
C3_OneImageOutstanding ==
    /\ acquired \in { 0, 1 }
    /\ AtHandler("get_current_texture") => acquired = 0
    /\ phase = "idle" => acquired = 0

\* the second frame is about to acquire after the first one had acquired an image
\* (the first frame ended its UI frame, which it does only after acquiring)
C3_Witness ==
    /\ AtHandler("get_current_texture")
    /\ delivered = << RedrawRequested, RedrawRequested >>
    /\ ~frame_start.ui_frame_open

\* the steps of a frame that are not its last one and can fail
NonTerminalSteps == { "prepare_frame", "get_current_texture", "imgui_renderer.render" }

\* C4: a failure of UI frame preparation, of image acquisition or of the overlay
\* render ends only that frame; it never terminates the application.
C4_FrameFailureIsNotFatal ==
    failed_step \in NonTerminalSteps => phase # "panicked"

\* C5: after a frame whose image acquisition failed, the state the next frame starts
\* from (GraphicsContext, texture registry, the overlay's frame state) is what it was
\* when the failed frame was entered.
C5_FailedAcquisitionLeavesNoTrace ==
    (HandlerReturned /\ failed_step = "get_current_texture") => FrameState = frame_start

\* C6: every event is forwarded to the overlay's I/O adapter exactly once, and before
\* anything else window_event does for it.
C6_ForwardedFirstAndOnce ==
    /\ calls # << >> => calls[1] = "handle_event"
    /\ Count(calls, "handle_event") <= 1
    /\ HandlerReturned => Count(calls, "handle_event") = 1 /\ io # << >> /\ io[Len(io)] = event

\* the exit key was forwarded and then handled
C6_Witness == HandlerReturned /\ calls = << "handle_event", "on_key_input", "exit" >>

\* imgui_context.frame() has begun the UI frame of the current redraw request
UiBuilt == Has(calls, "frame") /\ failed_step # "frame"

\* C7: the io state a frame's UI is built from holds every event delivered before
\* the redraw request, in order, and no event delivered after it: it is a prefix of
\* the delivered events that ends with a redraw request.
C7_UiSeesEventsBeforeRedraw ==
    /\ IsPrefix(ui_observed, delivered)
    /\ ui_observed # << >> => ui_observed[Len(ui_observed)] = RedrawRequested
    /\ UiBuilt => IsPrefix(SubSeq(delivered, 1, Len(delivered) - 1), ui_observed)

\* a UI built after a key event
C7_Witness ==
    /\ UiBuilt
    /\ delivered = << KeyboardInput("KeyA", "Pressed"), RedrawRequested >>
    /\ ui_observed = delivered

IsExitKeyPress(ev) == ev.kind = "KeyboardInput" /\ ev.key = "Escape" /\ ev.state = "Pressed"

\* C8: handling an event requests event-loop termination if and only if the event is
\* a press of Escape.
C8_ExitOnlyOnEscapePress ==
    /\ Has(calls, "exit") => IsExitKeyPress(event)
    /\ (HandlerReturned /\ IsExitKeyPress(event)) => Has(calls, "exit")

\* C9: once the GraphicsContext exists, the surface configuration's width and height
\* are the window's physical size.
C9_SurfaceMatchesWindow ==
    graphics_interface # NoRecord =>
        /\ graphics_interface.surface_configuration.width = window_size.width
        /\ graphics_interface.surface_configuration.height = window_size.height

Range(seq) == { seq[i] : i \in DOMAIN seq }
StartupFailed ==
    /\ phase \in { "failed", "panicked" }
    /\ failed_step \in Range(enable_event_loop) \ { "run_app" }
LoopStarted == Has(startup_calls, "run_app")
\* the steps attempted are the first steps of enable_event_loop, each attempted once
NoStepRetried == IsPrefix(startup_calls, enable_event_loop)

\* the steps that construct the GraphicsContext, and the ones before them
ContextSteps == Range(enable_graphics_interface) \cup { "EventLoop::build", "create_window" }

\* C10 as stated: whenever a startup step fails no GraphicsContext was produced,
\* nothing was retried, the loop never started and no event was processed; the loop
\* starts only after context, texture upload and registration.
C10_AllOrNothingStartup ==
    /\ NoStepRetried
    /\ StartupFailed =>
          /\ contexts_constructed = 0
          /\ ~LoopStarted
          /\ delivered = << >>
    /\ LoopStarted =>
          /\ contexts_constructed = 1
          /\ tex_load # NoRecord
          /\ "tex.icon" \in DOMAIN texture_map

\* C10 (amended): no startup step is ever retried; a failed startup never builds the
\* application, starts the loop or processes an event; it has produced no
\* GraphicsContext when the failing step is one of context construction, and exactly
\* one, which is never handed to the application, when the image could not be loaded;
\* the loop starts only after context, texture upload and registration.
C10_Amended ==
    /\ NoStepRetried
    /\ contexts_constructed \in { 0, 1 }
    /\ StartupFailed =>
          /\ failed_step \in ContextSteps => contexts_constructed = 0
          /\ failed_step \notin ContextSteps =>
                /\ failed_step = "write_image_from_path_msaa_off"
                /\ contexts_constructed = 1
          /\ ~application
          /\ ~LoopStarted
          /\ delivered = << >>
    /\ LoopStarted =>
          /\ contexts_constructed = 1
          /\ application
          /\ tex_load # NoRecord
          /\ "tex.icon" \in DOMAIN texture_map
          /\ texture_map["tex.icon"] \in DOMAIN renderer_textures

\* startup died on the image, after the context had been constructed
C10_Witness ==
    /\ StartupFailed
    /\ failed_step = "write_image_from_path_msaa_off"
    /\ graphics_interface # NoRecord

\* the UI declaration of the current frame asked the registry for a name it lacks
LookupMissed == Has(calls, "image_button") /\ "tex.icon" \notin DOMAIN texture_map

\* C11: a lookup of a name the registry lacks is fatal, and the frame that made it
\* acquires, submits and presents nothing.
C11_LookupMissIsFatal ==
    LookupMissed =>
        /\ phase = "panicked"
        /\ failed_step = "image_button"
        /\ ~Has(calls, "get_current_texture")
        /\ ~Has(calls, "submit")
        /\ ~Has(calls, "present")

\* a redraw on a registry that holds only another name
C11_Witness ==
    /\ LookupMissed
    /\ "missing" \in DOMAIN texture_map
    /\ phase = "panicked"

\* C12: whenever a redraw request can be processed (the event loop runs), the registry
\* binds "tex.icon" to a texture of the renderer; and once the loop has started no
\* step adds, removes or rebinds an entry of the registry or of the renderer's
\* textures.
C12_IconRegisteredBeforeUse ==
    /\ [](phase \in { "idle", "handling" } =>
            /\ "tex.icon" \in DOMAIN texture_map
            /\ texture_map["tex.icon"] \in DOMAIN renderer_textures)
    /\ [][LoopStarted =>
            /\ texture_map' = texture_map
            /\ renderer_textures' = renderer_textures]_vars

\* the second event is a redraw whose UI declaration is about to look the icon up
C12_Witness ==
    /\ AtHandler("image_button")
    /\ Len(delivered) = 2
    /\ "tex.icon" \in DOMAIN texture_map

\* C13: the texture made from a decoded image of w x h pixels has size w x h x 1, one
\* mip level, one sample, usage {sampled, copy-destination} and the surface
\* configuration's format, and was written once, from origin zero, with a row stride
\* of 4*w bytes and h rows per image; when decoding fails the uploader returns the
\* error and no texture exists.
C13_TextureMatchesImage ==
    /\ tex_load # NoRecord =>
          /\ image_load \in ImageDims
          /\ tex_load.size = [ width |-> image_load.width, height |-> image_load.height,
                               depth_or_array_layers |-> 1 ]
          /\ tex_load.mip_level_count = 1
          /\ tex_load.sample_count = 1
          /\ tex_load.usage = { "TEXTURE_BINDING", "COPY_DST" }
          /\ tex_load.format = graphics_interface.surface_configuration.format
          /\ Len(tex_load.writes) = 1
          /\ tex_load.writes[1].origin = [x |-> 0, y |-> 0, z |-> 0]
          /\ tex_load.writes[1].bytes_per_row = 4 * image_load.width
          /\ tex_load.writes[1].rows_per_image = image_load.height
          /\ tex_load.writes[1].size = tex_load.size
    /\ image_load = DecodeError =>
          /\ tex_load = NoRecord
          /\ failed_step = "write_image_from_path_msaa_off"
          /\ phase = "panicked"

\* a 3 x 2 image uploaded for a surface configured as Rgba8UnormSrgb
C13_Witness ==
    /\ tex_load # NoRecord
    /\ image_load = [width |-> 3, height |-> 2]
    /\ tex_load.format = "Rgba8UnormSrgb"

\* every occurrence of b in seq comes after an occurrence of a
Precedes(seq, a, b) ==
    \A i \in DOMAIN seq : seq[i] = b => \E j \in 1..(i - 1) : seq[j] = a

\* C14: in every frame the image is acquired before the UI frame is begun and before
\* widgets are declared: BuildUI never starts before AcquireImage has succeeded.
C14_AcquireBeforeBuildUI ==
    /\ Precedes(calls, "get_current_texture", "frame")
    /\ Precedes(calls, "get_current_texture", "image_button")
    /\ Has(calls, "frame") => failed_step # "get_current_texture"

\* C15: in every frame the UI draw data is finalized (imgui_context.render()) before
\* the render pass is constructed, never while a render pass is open.
C15_EndFrameBeforeRenderPass ==
    /\ Precedes(calls, "imgui_context.render", "begin_render_pass")
    /\ \A i \in DOMAIN calls :
          calls[i] = "imgui_context.render" =>
             Count(SubSeq(calls, 1, i), "begin_render_pass")
                <= Count(SubSeq(calls, 1, i), "end_render_pass")

\* some offered format is flagged sRGB
OffersSrgb(formats) == \E i \in DOMAIN formats : is_srgb(formats[i])

\* C16: for every capability list the chosen format is the first format of the list
\* flagged sRGB, start-up fails fatally when the list has none, and the chosen present
\* mode and alpha mode are the first ones offered.
C16_FirstMatchSelection ==
    LET fs == surface_caps.formats
    IN /\ surface_format # None =>
             \E i \in DOMAIN fs : /\ fs[i] = surface_format
                                  /\ is_srgb(fs[i])
                                  /\ \A j \in 1..(i - 1) : ~is_srgb(fs[j])
       /\ failed_step = "find_srgb" => phase = "panicked" /\ ~OffersSrgb(fs)
       /\ (Has(startup_calls, "find_srgb") /\ ~Has(startup_calls, "configure")
              /\ ~OffersSrgb(fs)) =>
             phase = "panicked" /\ failed_step = "find_srgb" /\ surface_format = None
       /\ surface_configuration # NoRecord =>
             /\ surface_configuration.format = surface_format
             /\ surface_caps.present_modes # <<>>
             /\ surface_configuration.present_mode = surface_caps.present_modes[1]
             /\ surface_caps.alpha_modes # <<>>
             /\ surface_configuration.alpha_mode = surface_caps.alpha_modes[1]

\* two sRGB formats, two present modes and two alpha modes were offered
C16_Witness ==
    /\ surface_caps.formats = << "Rgba8UnormSrgb", "Bgra8UnormSrgb" >>
    /\ surface_caps.present_modes = << "Mailbox", "Fifo" >>
    /\ surface_caps.alpha_modes = << "PreMultiplied", "Opaque" >>
    /\ surface_configuration # NoRecord
    /\ surface_configuration.format = "Rgba8UnormSrgb"
    /\ surface_configuration.present_mode = "Mailbox"

\* C17: every invocation of render that begins the UI frame ends it before it
\* returns, on the success path and on every error path, so no redraw request begins
\* a UI frame while the previous one is still open.
C17_UiFrameBeginEndPaired ==
    /\ (HandlerReturned /\ UiBuilt) => ~ui_frame_open
    /\ AtHandler("frame") => ~ui_frame_open

\* C18: every processed redraw request asks the window for the next redraw before any
\* fallible step of the frame, so that after every frame, successful or failed, and
\* absent an exit request, the loop is alive with a redraw request pending.
C18_RedrawLoopSelfSustaining ==
    /\ \A i \in DOMAIN calls :
          calls[i] \in { "prepare_frame", "frame", "get_current_texture",
                         "imgui_renderer.render" } =>
             \E j \in 1..(i - 1) : calls[j] = "request_redraw"
    /\ (event.kind = "RedrawRequested" /\ phase # "handling" /\ ~exit_requested
          /\ failed_step # "run_app") =>
          phase = "idle" /\ redraw_pending

\* C19: once termination has been requested, a redraw request delivered afterwards
\* does not run the frame pipeline: nothing is acquired, submitted or presented.
C19_NoFrameAfterExitRequest ==
    (exit_requested /\ event.kind = "RedrawRequested") =>
       /\ ~Has(calls, "get_current_texture")
       /\ ~Has(calls, "submit")
       /\ ~Has(calls, "present")

====
